---- MODULE Spec2Model ----
(***************************************************************************)
(* A model of paper_markdown_text_classifier.py: the text normalisation    *)
(* functions, the resumable model download and the batch driver            *)
(* move_files.                                                             *)
(*                                                                         *)
(* A Python str is a sequence of characters; a character is a one-element  *)
(* string, and a character outside ASCII is written as its code point      *)
(* ("U+5377").  A directory path is a sequence of components.              *)
(***************************************************************************)
EXTENDS Integers, Sequences, FiniteSets, TLC

VARIABLES
    \* ---- text functions
    text,                    \* the argument of the text functions
    ran,                     \* which text functions have been applied
    processed,               \* one_text_pre_process(text)
    denoised,                \* remove_noise_character(text)
    \* ---- move_files
    args,                    \* input_dir, output_dir, threshold, just_by_file_name
    model,                   \* the classifier, <<>> for None
    files,                   \* the file system: file -> content
    dirs,                    \* the directories that exist
    pc,                      \* "call", "loop", "returned" or "raised"
    exc,                     \* the exception that left move_files, "" for none
    all_file,                \* the rows the walk collected
    idx,                     \* the row the loop is at
    positive_probabilities,  \* the local of that name: <<>> while unbound
    file_name_log,           \* lines of file_name_classification.log
    move_log,                \* lines of move_log.log
    run,                     \* "first" or "second" call of move_files
    last,                    \* what the latest loop iteration did
    copied,                  \* the copies made so far, by run
    snapshot,                \* the files, the log lengths and the rows the first
                             \* run's loop had reached, as the second run starts
    \* ---- download_model
    remote,                  \* the size of the remote file (in chunks)
    model_file,              \* the size of the file at model_name, -1 when absent
    temp_file,               \* the size of model_name + ".tmp", -1 when absent
    dpc,                     \* "call", "streaming", "returned" or "raised"
    requested,               \* the offset of the Range header sent, -1 for none
    total_size,              \* the total the content-range header gave
    progress_n,              \* progress_bar.n
    pending,                 \* chunks the response has still to deliver
    complained,              \* the message of line 203 was printed
    calls                    \* calls of download_model so far

textVars == <<text, ran, processed, denoised>>

moveVars == <<args, model, files, dirs, pc, exc, all_file, idx,
              positive_probabilities, file_name_log, move_log, run, last,
              copied, snapshot>>

dlVars == <<remote, model_file, temp_file, dpc, requested, total_size,
            progress_n, pending, complained, calls>>

(***************************************************************************)
(* Bounds of the model.                                                    *)
(***************************************************************************)
MaxTextLen == 4
MaxFiles == 2
MaxRemoteSize == 3
MaxCalls == 2

(***************************************************************************)
(* Sequence helpers.                                                       *)
(***************************************************************************)
SetMin(S) == CHOOSE x \in S : \A y \in S : x <= y

Range(s) == {s[i] : i \in DOMAIN s}

RECURSIVE SeqsUpTo(_, _)
SeqsUpTo(A, n) ==
    IF n = 0 THEN {<<>>}
    ELSE LET shorter == SeqsUpTo(A, n - 1)
         IN  shorter \cup {Append(s, c) : s \in {t \in shorter : Len(t) = n - 1}, c \in A}

\* lit occurs in s at position i
IsLit(s, i, lit) ==
    /\ i + Len(lit) - 1 <= Len(s)
    /\ \A k \in 1..Len(lit) : s[i + k - 1] = lit[k]

\* Python's `sub in s` for strings
Contains(s, sub) == \E i \in 1..(Len(s) + 1) : IsLit(s, i, sub)

(***************************************************************************)
(* remove_image_string.  Each alternative of the pattern is a list of      *)
(* literals with a lazy `.*?` between neighbours; `.` matches every        *)
(* character but "\n".                                                     *)
(***************************************************************************)
ImageSizedAlt ==
    << <<"!", "[">>,
       <<"]", "(">>,
       <<")", "{", "w", "i", "d", "t", "h", "=", "\"">>,
       <<"\"", " ", "h", "e", "i", "g", "h", "t", "=", "\"">>,
       <<"\"", "}">> >>

ImageAlt == << <<"!", "[">>, <<"]", "(">>, <<")">> >>

SpanAlt == << <<"[">>, <<"]", "{">>, <<"}">> >>

\* The index just after the match of the alternative lits that the
\* backtracking matcher finds at position i (each lazy gap as short as the
\* rest allows, leftmost gap first), or 0 when there is none.
RECURSIVE MatchEnd(_, _, _)
MatchEnd(s, i, lits) ==
    IF ~IsLit(s, i, Head(lits)) THEN 0
    ELSE LET j0 == i + Len(Head(lits))
         IN  IF Len(lits) = 1 THEN j0
             ELSE LET cands == {j \in j0..(Len(s) + 1) :
                                    /\ \A k \in j0..(j - 1) : s[k] # "\n"
                                    /\ MatchEnd(s, j, Tail(lits)) # 0}
                  IN  IF cands = {} THEN 0
                      ELSE MatchEnd(s, SetMin(cands), Tail(lits))

\* the alternatives are tried in the order they are written
PatternEnd(s, i) ==
    LET e1 == MatchEnd(s, i, ImageSizedAlt)
        e2 == MatchEnd(s, i, ImageAlt)
        e3 == MatchEnd(s, i, SpanAlt)
    IN  IF e1 # 0 THEN e1 ELSE IF e2 # 0 THEN e2 ELSE e3

\* re.sub(pattern, "", s): one left-to-right pass over non-overlapping matches
RECURSIVE SubFrom(_, _)
SubFrom(s, i) ==
    IF i > Len(s) THEN <<>>
    ELSE LET e == PatternEnd(s, i)
         IN  IF e # 0 THEN SubFrom(s, e) ELSE <<s[i]>> \o SubFrom(s, i + 1)

remove_image_string(input_string) == SubFrom(input_string, 1)

(***************************************************************************)
(* remove_noise_character: the pattern is one character class, so every    *)
(* character written between the brackets is a member of it.               *)
(***************************************************************************)
NoiseClass ==
    <<">", "*", "|", "i", "m", "a", "g", "e", "|", "d", "a", "t", "a", "|",
      "m", "e", "d", "i", "a", "|", "p", "n", "g">>

NoiseCharsWithC == Range(NoiseClass) \cup {"c"}

NoiseChars == Range(NoiseClass)

remove_noise_character(input_string) ==
    SelectSeq(input_string, LAMBDA ch : ch \notin NoiseChars)

(***************************************************************************)
(* str.splitlines, str.strip and str.join.                                 *)
(***************************************************************************)
LineBreaks ==
    {"\n", "\r", "U+000B", "\f", "U+001C", "U+001D", "U+001E", "U+0085",
     "U+2028", "U+2029"}

Whitespace ==
    LineBreaks \cup
    {" ", "\t", "U+001F", "U+00A0", "U+1680", "U+2000", "U+2001", "U+2002",
     "U+2003", "U+2004", "U+2005", "U+2006", "U+2007", "U+2008", "U+2009",
     "U+200A", "U+202F", "U+205F", "U+3000"}

RECURSIVE SplitFrom(_, _, _)
SplitFrom(s, i, cur) ==
    IF i > Len(s) THEN (IF cur = <<>> THEN <<>> ELSE <<cur>>)
    ELSE IF s[i] \in LineBreaks
         THEN LET next == IF s[i] = "\r" /\ i < Len(s) /\ s[i + 1] = "\n"
                          THEN i + 2 ELSE i + 1
              IN  <<cur>> \o SplitFrom(s, next, <<>>)
         ELSE SplitFrom(s, i + 1, Append(cur, s[i]))

splitlines(s) == SplitFrom(s, 1, <<>>)

strip(s) ==
    LET keep == {i \in DOMAIN s : s[i] \notin Whitespace}
    IN  IF keep = {} THEN <<>>
        ELSE SubSeq(s, SetMin(keep), CHOOSE i \in keep : \A j \in keep : j <= i)

RECURSIVE Join(_, _)
Join(lines, sep) ==
    IF lines = <<>> THEN <<>>
    ELSE IF Len(lines) = 1 THEN lines[1]
    ELSE lines[1] \o sep \o Join(Tail(lines), sep)

(***************************************************************************)
(* one_text_pre_process                                                    *)
(***************************************************************************)
\* the test of line 58 on a line whose image strings were removed
DropsLineBlankKept(remove_image_line) == strip(remove_image_line) \in {<<">">>}

DropsLine(remove_image_line) == strip(remove_image_line) \in {<<>>, <<">">>}

RECURSIVE PreProcessLines(_)
PreProcessLines(lines) ==
    IF lines = <<>> THEN <<>>
    ELSE LET remove_image_line == remove_image_string(Head(lines))
         IN  IF DropsLine(remove_image_line)
             THEN PreProcessLines(Tail(lines))
             ELSE <<remove_noise_character(remove_image_line)>>
                      \o PreProcessLines(Tail(lines))

one_text_pre_process(t) == Join(PreProcessLines(splitlines(t)), <<"\n">>)

(***************************************************************************)
(* get_predict_with_threshold.  A probability is written in tenths.        *)
(***************************************************************************)
LabelAtOrAbove(p, threshold) == IF p >= threshold THEN 1 ELSE 0

\* line 124: (positive_probabilities > threshold).astype(int), item by item
Label(p, threshold) == IF p > threshold THEN 1 ELSE 0

\* model.predict_proba(X)[:, 1] of a classifier that gives every text the
\* probability mdl.positive
predict_proba(mdl, X) == [i \in 1..Len(X) |-> mdl.positive]

get_predict_with_threshold(mdl, X, threshold) ==
    LET positive == predict_proba(mdl, X)
    IN  [predictions |-> [i \in 1..Len(X) |-> Label(positive[i], threshold)],
         positive_probabilities |-> positive]

(***************************************************************************)
(* Text extraction.  A file's content is what python-docx reads from it    *)
(* (its paragraphs) and what the generic converter makes of it.            *)
(***************************************************************************)
MIN_TEXT_LEN == 50

Zh == "U+4E2D"

ZhRun(n) == [i \in 1..n |-> Zh]

RECURSIVE ConcatEach(_, _)
ConcatEach(paragraphs, sep) ==
    IF paragraphs = <<>> THEN <<>>
    ELSE Head(paragraphs) \o sep \o ConcatEach(Tail(paragraphs), sep)

\* the documents of the model: a readable one has paragraphs
Content ==
    [ exam_long  |-> [readable |-> TRUE,  paragraphs |-> <<ZhRun(MIN_TEXT_LEN - 1)>>],
      exam_short |-> [readable |-> TRUE,  paragraphs |-> <<ZhRun(MIN_TEXT_LEN - 2)>>],
      english    |-> [readable |-> TRUE,  paragraphs |-> << <<"a", "n", " ", "e", "x", "a", "m">> >>],
      corrupt    |-> [readable |-> FALSE, paragraphs |-> <<>>] ]

ContentIds == DOMAIN Content

\* an extractor's result: the text, or the exception it raised
Extracted(by, c, sep) ==
    [extractor |-> by, ok |-> Content[c].readable,
     text |-> ConcatEach(Content[c].paragraphs, sep)]

\* text += paragraph.text + ' ' over doc.paragraphs
extract_text_from_docx(c) == Extracted("extract_text_from_docx", c, <<" ">>)

\* textract.process(...).decode("utf-8"): the converter ends each paragraph
\* with a newline
extract_text_from_doc(c) == Extracted("extract_text_from_doc", c, <<"\n">>)

Docx == <<"d", "o", "c", "x">>

\* line 232: `ext in "docx"` is a substring test
extract_text(c, ext) ==
    IF Contains(Docx, ext) THEN extract_text_from_docx(c)
    ELSE extract_text_from_doc(c)

(***************************************************************************)
(* detect_language                                                         *)
(***************************************************************************)
\* the characters of the model within U+4E00..U+9FFF
CJK == {"U+4E2D", "U+8003", "U+8BD5", "U+5377", "U+9898"}

\* the characters c with 'a' <= c.lower() <= 'z'
Latin ==
    {"a", "b", "c", "d", "e", "f", "g", "h", "i", "j", "k", "l", "m", "n", "o",
     "p", "q", "r", "s", "t", "u", "v", "w", "x", "y", "z",
     "A", "B", "C", "D", "E", "F", "G", "H", "I", "J", "K", "L", "M", "N", "O",
     "P", "Q", "R", "S", "T", "U", "V", "W", "X", "Y", "Z"}

detect_language(t) ==
    LET chinese_count == Cardinality({i \in DOMAIN t : t[i] \in CJK})
        english_count == Cardinality({i \in DOMAIN t : t[i] \notin CJK /\ t[i] \in Latin})
    IN  IF chinese_count > english_count THEN "Chinese"
        ELSE IF english_count > chinese_count THEN "English"
        ELSE "Unknown"

(***************************************************************************)
(* The file name heuristic.                                                *)
(***************************************************************************)
EXAMINATION_KEY_WORDS ==
    << <<"U+8003", "U+8BD5">>, <<"U+8BD5", "U+5377">>, <<"U+5377">>,
       <<"U+8BD5", "U+9898">>, <<"U+8BD5">> >>

judge_examination_paper_by_file_name(file_name) ==
    \E k \in DOMAIN EXAMINATION_KEY_WORDS :
        Contains(file_name, EXAMINATION_KEY_WORDS[k])

FILE_SUFFIX == {<<".", "d", "o", "c">>, <<".", "d", "o", "c", "x">>}

\* os.path.splitext(file)[1]: from the last dot on, leading dots apart
splitext(file) ==
    LET dots == {i \in DOMAIN file : file[i] = "."}
        d    == CHOOSE i \in dots : \A j \in dots : j <= i
    IN  IF dots = {} THEN <<>>
        ELSE IF \A i \in 1..(d - 1) : file[i] = "." THEN <<>>
        ELSE SubSeq(file, d, Len(file))

(***************************************************************************)
(* Paths.  A file is [root, file]: the directory it is in and its name.    *)
(***************************************************************************)
\* os.path.abspath on a path relative to the working directory
abspath(dir) == SelectSeq(dir, LAMBDA comp : comp # ".")

IsPrefix(a, b) == Len(a) <= Len(b) /\ SubSeq(b, 1, Len(a)) = a

\* os.path.relpath(root, start) for a root under start
relpath(root, start) ==
    LET r == abspath(root)
        b == abspath(start)
    IN  IF r = b THEN <<".">> ELSE SubSeq(r, Len(b) + 1, Len(r))

Prefixes(dir) == {SubSeq(dir, 1, n) : n \in 1..Len(dir)}

\* where the file system keeps a file
Resolve(f) == [root |-> abspath(f.root), file |-> f.file]

TargetExistsNever(fs, target_file) == FALSE

\* line 308: os.path.exists(target_file)
TargetExists(fs, target_file) == Resolve(target_file) \in DOMAIN fs

RECURSIVE Perms(_)
Perms(S) ==
    IF S = {} THEN {<<>>}
    ELSE UNION {{<<x>> \o p : p \in Perms(S \ {x})} : x \in S}

\* os.walk(input_dir), top down: a directory's files are listed together,
\* in the order the file system gives, and before those of its subdirectories
WalkOrders(fs, input_dir) ==
    LET top  == abspath(input_dir)
        rows == {[root |-> input_dir \o SubSeq(f.root, Len(top) + 1, Len(f.root)),
                  file |-> f.file] : f \in {g \in DOMAIN fs : IsPrefix(top, g.root)}}
    IN  {o \in Perms(rows) :
            \A i, j \in DOMAIN o : i < j =>
                /\ ~(o[j].root # o[i].root /\ IsPrefix(o[j].root, o[i].root))
                /\ o[i].root = o[j].root =>
                       \A k \in i..j : o[k].root = o[i].root}

(***************************************************************************)
(* move_files: one loop iteration (lines 290-338) as a function of the     *)
(* row, the file system and the local positive_probabilities.              *)
(***************************************************************************)
NoRow == [root |-> <<>>, file |-> <<>>]

\* nothing done: the iteration left by a `continue`
Skipped(row, ext, extractor) ==
    [row |-> row, ext |-> ext, extractor |-> extractor, mode |-> "skipped",
     predict |-> "", computed |-> <<>>, target |-> NoRow, copies |-> 0,
     fn_lines |-> <<>>, mv_lines |-> <<>>, bound |-> <<>>, raised |-> ""]

\* Python's truth of a value written as str() prints it
Truthy(predict) == predict \in {"True", "1"}

Iteration(row, fs, mdl, a, bound) ==
    LET file        == row.file
        ext         == splitext(file)
        file_local  == [root |-> row.root, file |-> file]
        target_dir  == a.output_dir \o relpath(row.root, a.input_dir)
        target_file == [root |-> target_dir, file |-> file_local.file]
    IN  IF ext \notin FILE_SUFFIX THEN Skipped(row, ext, "")
        ELSE IF TargetExists(fs, target_file) THEN Skipped(row, ext, "")
        ELSE
        LET got == extract_text(fs[Resolve(file_local)], ext)
        IN  IF ~got.ok THEN Skipped(row, ext, got.extractor)
            ELSE IF detect_language(got.text) # "Chinese"
                 THEN Skipped(row, ext, got.extractor)
            ELSE
            LET heuristic == a.just_by_file_name # 0 \/ Len(got.text) < MIN_TEXT_LEN
                res       == get_predict_with_threshold(
                                 mdl, <<one_text_pre_process(got.text)>>, a.threshold)
                predict   == IF heuristic
                             THEN (IF judge_examination_paper_by_file_name(file)
                                   THEN "True" ELSE "False")
                             ELSE (IF res.predictions[1] = 1 THEN "1" ELSE "0")
                computed  == IF heuristic THEN <<>> ELSE res.positive_probabilities
                \* the local after the branch: assigned only by the model branch
                now       == IF heuristic THEN bound ELSE computed
            IN  [row |-> row, ext |-> ext, extractor |-> got.extractor,
                 mode |-> IF heuristic THEN "heuristic" ELSE "model",
                 predict |-> predict, computed |-> computed,
                 target |-> target_file,
                 copies |-> IF Truthy(predict) THEN 1 ELSE 0,
                 fn_lines |-> IF heuristic /\ Truthy(predict)
                              THEN <<target_file>> ELSE <<>>,
                 \* line 338 reads positive_probabilities[0]
                 mv_lines |-> IF now = <<>> THEN <<>>
                              ELSE <<[predict |-> predict, prob |-> now[1],
                                      file_local |-> file_local]>>,
                 bound |-> now,
                 raised |-> IF now = <<>> THEN "UnboundLocalError" ELSE ""]

LastIdle == Skipped(NoRow, <<>>, "")

(***************************************************************************)
(* move_files as a state machine: the call up to the loop, one iteration,  *)
(* the return, and a second call with the same arguments.                  *)
(***************************************************************************)
DEFAULT_THRESHOLD == 5

Probs == {0, 5, 10}

Thresholds == {0, DEFAULT_THRESHOLD}

JuanDocx == <<"U+5377", ".", "d", "o", "c", "x">>
XDoc     == <<"x", ".", "d", "o", "c">>
NotesTxt == <<"n", ".", "t", "x", "t">>

InRoot == <<"in">>

Slots ==
    { [root |-> InRoot, file |-> JuanDocx],
      [root |-> InRoot, file |-> XDoc],
      [root |-> InRoot \o <<"sub">>, file |-> JuanDocx],
      [root |-> InRoot \o <<"sub">>, file |-> NotesTxt] }

InputTrees ==
    UNION {[S -> ContentIds] : S \in {T \in SUBSET Slots : Cardinality(T) <= MaxFiles}}

\* output roots: beside the input root, inside it, and the input root itself
\* written two ways
OutputDirs == {<<"out">>, InRoot \o <<"out">>, InRoot, InRoot \o <<".">>}

ArgChoices ==
    {[input_dir |-> i, output_dir |-> o, threshold |-> t, just_by_file_name |-> j] :
        i \in {InRoot}, o \in OutputDirs, t \in Thresholds, j \in {0, 1}}
    \cup
    {[input_dir |-> <<"missing">>, output_dir |-> <<"out">>,
      threshold |-> DEFAULT_THRESHOLD, just_by_file_name |-> j] : j \in {0, 1}}

\* line 354: no model in file name mode; else a classifier
Models(a) ==
    IF a.just_by_file_name # 0 THEN {<<>>}
    ELSE {[positive |-> p] : p \in Probs}

MoveInit ==
    /\ args \in {a \in ArgChoices :
                    a.just_by_file_name # 0 => a.threshold = DEFAULT_THRESHOLD}
    /\ model \in Models(args)
    /\ files \in InputTrees
    /\ dirs = {InRoot} \cup {f.root : f \in DOMAIN files}
    /\ pc = "call"
    /\ exc = ""
    /\ all_file = <<>>
    /\ idx = 1
    /\ positive_probabilities = <<>>
    /\ file_name_log = <<>>
    /\ move_log = <<>>
    /\ run = "first"
    /\ last = LastIdle
    /\ copied = {}
    /\ snapshot = [files |-> files, fn |-> 0, mv |-> 0, pc |-> "call",
                    reached |-> {}]

\* lines 272-286: validation, makedirs, the walk
Start ==
    /\ pc = "call"
    /\ IF abspath(args.input_dir) \notin dirs
          \/ abspath(args.input_dir) = abspath(args.output_dir)
       THEN /\ pc' = "raised"
            /\ exc' = "ValueError"
            /\ UNCHANGED <<dirs, all_file>>
       ELSE /\ dirs' = dirs \cup Prefixes(abspath(args.output_dir))
            /\ all_file' \in WalkOrders(files, args.input_dir)
            /\ pc' = "loop"
            /\ exc' = ""
    /\ idx' = 1
    /\ positive_probabilities' = <<>>
    /\ UNCHANGED <<args, model, files, file_name_log, move_log, run, last,
                   copied, snapshot>>
    /\ UNCHANGED <<textVars, dlVars>>

\* lines 289-338: one iteration of the loop
Step ==
    /\ pc = "loop"
    /\ idx <= Len(all_file)
    /\ LET it == Iteration(all_file[idx], files, model, args, positive_probabilities)
           src == Resolve(it.row)
           dst == Resolve(it.target)
       IN  /\ last' = it
           /\ positive_probabilities' =
                  IF it.mode = "skipped" THEN positive_probabilities ELSE it.bound
           /\ file_name_log' = file_name_log \o it.fn_lines
           /\ IF it.copies = 1
              THEN /\ dirs' = dirs \cup Prefixes(dst.root)
                   /\ files' = [f \in DOMAIN files \cup {dst} |->
                                   IF f = dst THEN files[src] ELSE files[f]]
                   /\ copied' = copied \cup {[run |-> run, src |-> src, dst |-> dst]}
              ELSE UNCHANGED <<dirs, files, copied>>
           /\ move_log' = move_log \o it.mv_lines
           /\ IF it.raised # ""
              THEN pc' = "raised" /\ exc' = it.raised /\ idx' = idx
              ELSE pc' = "loop" /\ exc' = "" /\ idx' = idx + 1
    /\ UNCHANGED <<args, model, all_file, run, snapshot>>
    /\ UNCHANGED <<textVars, dlVars>>

\* the loop is through: move_files returns
Return ==
    /\ pc = "loop"
    /\ idx > Len(all_file)
    /\ pc' = "returned"
    /\ UNCHANGED <<args, model, files, dirs, exc, all_file, idx,
                   positive_probabilities, file_name_log, move_log, run, last,
                   copied, snapshot>>
    /\ UNCHANGED <<textVars, dlVars>>

\* move_files is called again with the same arguments
Rerun ==
    /\ run = "first"
    /\ pc \in {"returned", "raised"}
    /\ run' = "second"
    /\ snapshot' = [files |-> files, fn |-> Len(file_name_log),
                    mv |-> Len(move_log), pc |-> pc,
                    reached |-> {Resolve(all_file[k]) :
                                    k \in {j \in 1..Len(all_file) : j <= idx}}]
    /\ pc' = "call"
    /\ exc' = ""
    /\ all_file' = <<>>
    /\ idx' = 1
    /\ positive_probabilities' = <<>>
    /\ last' = LastIdle
    /\ UNCHANGED <<args, model, files, dirs, file_name_log, move_log, copied>>
    /\ UNCHANGED <<textVars, dlVars>>

MoveIdle ==
    /\ args = [input_dir |-> <<>>, output_dir |-> <<>>, threshold |-> 0,
               just_by_file_name |-> 0]
    /\ model = <<>>
    /\ files = <<>>
    /\ dirs = {}
    /\ pc = "idle"
    /\ exc = ""
    /\ all_file = <<>>
    /\ idx = 1
    /\ positive_probabilities = <<>>
    /\ file_name_log = <<>>
    /\ move_log = <<>>
    /\ run = "first"
    /\ last = LastIdle
    /\ copied = {}
    /\ snapshot = [files |-> <<>>, fn |-> 0, mv |-> 0, pc |-> "idle",
                    reached |-> {}]

(***************************************************************************)
(* The text functions applied to bounded inputs.                           *)
(***************************************************************************)
TextAlphabet == {"[", "]", "{", "}", "i", "c", ">", " ", "\n"}

\* inputs longer than the bound that exercise the image alternatives
SampleTexts ==
    { <<"!", "[", "c", "]", "(", "u", ")">>,
      <<"!", "[", "c", "]", "(", "u", ")", "{", "w", "i", "d", "t", "h", "=",
        "\"", "1", "\"", " ", "h", "e", "i", "g", "h", "t", "=", "\"", "2",
        "\"", "}", "x">>,
      <<"[", "x", "]", "i", "{", "y", "}">>,
      <<"!", "!", "[", "x", "]", "(", "y", ")", "[", "x", "]", "(", "y", ")">>,
      <<"x", "\r", "\n", " ", ">", " ", "\r", "y", "c", "z">> }

TextInputs == SeqsUpTo(TextAlphabet, MaxTextLen) \cup SampleTexts

TextInit ==
    /\ text \in TextInputs
    /\ ran = {}
    /\ processed = <<>>
    /\ denoised = <<>>

RunPreProcess ==
    /\ "one_text_pre_process" \notin ran
    /\ processed' = one_text_pre_process(text)
    /\ ran' = ran \cup {"one_text_pre_process"}
    /\ UNCHANGED <<text, denoised>>
    /\ UNCHANGED <<moveVars, dlVars>>

RunRemoveNoise ==
    /\ "remove_noise_character" \notin ran
    /\ denoised' = remove_noise_character(text)
    /\ ran' = ran \cup {"remove_noise_character"}
    /\ UNCHANGED <<text, processed>>
    /\ UNCHANGED <<moveVars, dlVars>>

TextNext == RunPreProcess \/ RunRemoveNoise

TextIdle ==
    /\ text = <<>>
    /\ ran = {}
    /\ processed = <<>>
    /\ denoised = <<>>

(***************************************************************************)
(* download_model.  Sizes count chunks of iter_content.                    *)
(***************************************************************************)
Absent == -1

Exists(f) == f # Absent

\* lines 202-206: the test only prints; os.rename follows in every case
Renames(total, n) == TRUE

DownloadInit ==
    /\ remote \in 1..MaxRemoteSize
    /\ model_file = Absent
    /\ temp_file \in {Absent} \cup 0..remote
    /\ dpc = "call"
    /\ requested = -1
    /\ total_size = 0
    /\ progress_n = 0
    /\ pending = 0
    /\ complained = FALSE
    /\ calls = 1

\* line 169: the model is there already
AlreadyThere ==
    /\ dpc = "call"
    /\ Exists(model_file)
    /\ dpc' = "returned"
    /\ UNCHANGED <<remote, model_file, temp_file, requested, total_size,
                   progress_n, pending, complained, calls>>
    /\ UNCHANGED <<textVars, moveVars>>

\* lines 172-194 when the server answers 206 with a content-range header:
\* the bytes from initial_position on are to come, the temp file is opened
\* for appending
Request ==
    /\ dpc = "call"
    /\ ~Exists(model_file)
    /\ LET initial_position == IF Exists(temp_file) THEN temp_file ELSE 0
       IN  /\ initial_position < remote
           /\ requested' = initial_position
           /\ total_size' = remote
           /\ progress_n' = initial_position
           /\ pending' = remote - initial_position
           /\ temp_file' = initial_position
    /\ dpc' = "streaming"
    /\ complained' = FALSE
    /\ UNCHANGED <<remote, model_file, calls>>
    /\ UNCHANGED <<textVars, moveVars>>

\* lines 183-189 raise: no connection, an error status (416 for a range that
\* starts at the end of the file), or an answer without content-range
RequestFails ==
    /\ dpc = "call"
    /\ ~Exists(model_file)
    /\ requested' = IF Exists(temp_file) THEN temp_file ELSE 0
    /\ dpc' = "raised"
    /\ UNCHANGED <<remote, model_file, temp_file, total_size, progress_n,
                   pending, complained, calls>>
    /\ UNCHANGED <<textVars, moveVars>>

\* lines 195-197: one chunk arrives and is appended
Chunk ==
    /\ dpc = "streaming"
    /\ pending > 0
    /\ pending' = pending - 1
    /\ progress_n' = progress_n + 1
    /\ temp_file' = temp_file + 1
    /\ UNCHANGED <<remote, model_file, dpc, requested, total_size, complained,
                   calls>>
    /\ UNCHANGED <<textVars, moveVars>>

\* the connection breaks and iter_content raises
StreamRaises ==
    /\ dpc = "streaming"
    /\ pending > 0
    /\ dpc' = "raised"
    /\ UNCHANGED <<remote, model_file, temp_file, requested, total_size,
                   progress_n, pending, complained, calls>>
    /\ UNCHANGED <<textVars, moveVars>>

\* iter_content ends, all chunks delivered or the body cut short without an
\* exception: lines 199-206
StreamEnds ==
    /\ dpc = "streaming"
    /\ complained' = (total_size # 0 /\ progress_n # total_size)
    /\ IF Renames(total_size, progress_n)
       THEN model_file' = temp_file /\ temp_file' = Absent
       ELSE UNCHANGED <<model_file, temp_file>>
    /\ dpc' = "returned"
    /\ UNCHANGED <<remote, requested, total_size, progress_n, pending, calls>>
    /\ UNCHANGED <<textVars, moveVars>>

\* download_model is called again
CallAgain ==
    /\ dpc \in {"returned", "raised"}
    /\ calls < MaxCalls
    /\ calls' = calls + 1
    /\ dpc' = "call"
    /\ requested' = -1
    /\ UNCHANGED <<remote, model_file, temp_file, total_size, progress_n,
                   pending, complained>>
    /\ UNCHANGED <<textVars, moveVars>>

DownloadNext ==
    AlreadyThere \/ Request \/ RequestFails \/ Chunk \/ StreamRaises
        \/ StreamEnds \/ CallAgain

DownloadIdle ==
    /\ remote = 0
    /\ model_file = Absent
    /\ temp_file = Absent
    /\ dpc = "idle"
    /\ requested = -1
    /\ total_size = 0
    /\ progress_n = 0
    /\ pending = 0
    /\ complained = FALSE
    /\ calls = 0

(***************************************************************************)
(* The specifications.                                                     *)
(***************************************************************************)
vars == <<textVars, moveVars, dlVars>>

Init == MoveInit /\ TextIdle /\ DownloadIdle

Next == Start \/ Step \/ Return \/ Rerun

Spec == Init /\ [][Next]_vars

InitText == TextInit /\ MoveIdle /\ DownloadIdle

SpecText == InitText /\ [][TextNext]_vars

InitDownload == DownloadInit /\ TextIdle /\ MoveIdle

SpecDownload == InitDownload /\ [][DownloadNext]_vars

(***************************************************************************)
(* Properties of move_files (specification Spec).                          *)
(***************************************************************************)
Decided == last.mode \in {"heuristic", "model"}

Done == pc \in {"returned", "raised"}

FirstRunSources == {c.src : c \in {d \in copied : d.run = "first"}}

FirstRunTargets == {c.dst : c \in {d \in copied : d.run = "first"}}

\* the files under the output root
OutputTree(fs) ==
    LET under == {f \in DOMAIN fs : IsPrefix(abspath(args.output_dir), f.root)}
    IN  [f \in under |-> fs[f]]

\* C1: once the pre-flight validation has passed, nothing raises out of the
\* loop: the only exception that leaves move_files is validation's ValueError,
\* and a call that returns has visited every enumerated file.
C1_FailuresAreIsolated ==
    /\ pc = "raised" => exc = "ValueError"
    /\ pc = "returned" => idx = Len(all_file) + 1

\* C2: every file processed through to a decision, in model mode or in file
\* name mode, positive or negative, gets at most one copy and at least one
\* log line (in file_name_classification.log or in move_log.log).
C2_OneCopyAndALogLine ==
    Decided => /\ last.copies <= 1
               /\ Len(last.fn_lines) + Len(last.mv_lines) >= 1

\* C3 as claimed: in a second run with the same arguments no file the first
\* run copied is copied again, and the output tree after the second run is
\* the output tree after the first, wherever the output root is.
C3_SecondRunChangesNothing ==
    run = "second" =>
        /\ \A c \in copied : c.run = "second" => c.src \notin FirstRunSources
        /\ Done => OutputTree(files) = OutputTree(snapshot.files)

\* C3 as amended: in a second run with the same arguments every file the
\* first run copied is skipped before extraction, classification, copy and
\* logging, every file present after the first run is still there with the
\* same content, and a file the second run copies is never one the first
\* run's loop had reached; the second run can still add files to the output
\* tree.
C3_SecondRunKeepsFirstCopies ==
    run = "second" =>
        /\ \A c \in copied : c.run = "second" => c.src \notin FirstRunSources
        /\ Resolve(last.row) \in FirstRunSources =>
               last.mode = "skipped" /\ last.extractor = ""
        /\ \A i \in (snapshot.mv + 1)..Len(move_log) :
               Resolve(move_log[i].file_local) \notin FirstRunSources
        /\ \A i \in (snapshot.fn + 1)..Len(file_name_log) :
               Resolve(file_name_log[i]) \notin FirstRunTargets
        /\ \A f \in DOMAIN snapshot.files :
               f \in DOMAIN files /\ files[f] = snapshot.files[f]
        /\ \A c \in copied : c.run = "second" => c.src \notin snapshot.reached

\* after a first run that returned, the second run has copied one of the
\* first run's copies and then came to a file the first run had copied, and
\* skipped it
C3_Witness ==
    /\ run = "second"
    /\ snapshot.pc = "returned"
    /\ Resolve(last.row) \in FirstRunSources
    /\ last.mode = "skipped"
    /\ \E c \in copied : c.run = "second" /\ c.src \in FirstRunTargets

\* C4: a file decided by the file name heuristic gets a line in
\* file_name_classification.log exactly when its name matches a keyword, and
\* no line in move_log.log.
C4_HeuristicLogsByNameOnly ==
    last.mode = "heuristic" =>
        /\ last.fn_lines # <<>> <=> judge_examination_paper_by_file_name(last.row.file)
        /\ last.mv_lines = <<>>

\* C6: a .docx file is extracted by extract_text_from_docx and a .doc file
\* by extract_text_from_doc.
C6_DispatchOnExtension ==
    last.extractor # "" =>
        /\ last.ext = <<".", "d", "o", "c", "x">> =>
               last.extractor = "extract_text_from_docx"
        /\ last.ext = <<".", "d", "o", "c">> =>
               last.extractor = "extract_text_from_doc"

\* C8: in model mode the label is 1 exactly when the positive-class
\* probability is strictly greater than the threshold; at a probability equal
\* to the threshold the label is 0 and the file is not copied.
C8_StrictThreshold ==
    last.mode = "model" =>
        /\ last.predict = "1" <=> last.computed[1] > args.threshold
        /\ last.computed[1] = args.threshold =>
               /\ last.predict = "0"
               /\ last.copies = 0
               /\ Resolve(last.target) \notin DOMAIN files

\* a file classified by the model at a probability equal to the threshold
C8_Witness ==
    /\ last.mode = "model"
    /\ last.computed = <<args.threshold>>
    /\ Resolve(last.target) \notin DOMAIN files

\* C10: a line appended to move_log.log carries the decision and the
\* probability computed for that file in that iteration, never a probability
\* computed for an earlier file.
C10_LogLineIsOfItsOwnFile ==
    \A i \in DOMAIN last.mv_lines :
        /\ last.computed # <<>>
        /\ last.mv_lines[i].prob = last.computed[1]
        /\ last.mv_lines[i].predict = last.predict
        /\ last.mv_lines[i].file_local = last.row

(***************************************************************************)
(* Properties of the text functions (specification SpecText).              *)
(***************************************************************************)
HasPattern(s) == \E i \in DOMAIN s : PatternEnd(s, i) # 0

\* the lines of an output of "\n".join
JoinedLines(s) == IF s = <<>> THEN <<>> ELSE SplitFrom(s \o <<"\n">>, 1, <<>>)

HasBlankLine(s) == \E i \in DOMAIN JoinedLines(s) : strip(JoinedLines(s)[i]) = <<>>

HasLoneGtLine(s) == \E i \in DOMAIN JoinedLines(s) : strip(JoinedLines(s)[i]) = <<">">>

PreProcessed == "one_text_pre_process" \in ran

\* C7 as claimed: the output of one_text_pre_process holds no match of the
\* image and markup patterns and no line that is blank or a lone '>'.
C7_OutputIsClean ==
    PreProcessed =>
        /\ ~HasPattern(processed)
        /\ ~HasBlankLine(processed)
        /\ ~HasLoneGtLine(processed)

\* C7 as amended: the output of one_text_pre_process holds no '>' at all, so
\* no line that is a lone '>', and, when the input holds none of the noise
\* characters, no blank line.
C7_NoGtAndNoBlankWithoutNoise ==
    PreProcessed =>
        /\ ">" \notin Range(processed)
        /\ ~HasLoneGtLine(processed)
        /\ Range(text) \cap NoiseChars = {} => ~HasBlankLine(processed)

\* an input without noise characters that has a blank line and a kept line
C7_Witness ==
    /\ PreProcessed
    /\ Range(text) \cap NoiseChars = {}
    /\ HasBlankLine(text)
    /\ processed # <<>>

Denoised == "remove_noise_character" \in ran

\* C9 as claimed: remove_noise_character removes exactly the 13 characters
\* > * | i m a g e d t p n c and keeps the others in order.
C9_RemovesThirteen ==
    Denoised =>
        denoised = SelectSeq(text, LAMBDA ch :
            ch \notin {">", "*", "|", "i", "m", "a", "g", "e", "d", "t", "p", "n", "c"})

\* C9 as amended: remove_noise_character removes exactly the 12 characters
\* > * | i m a g e d t p n and keeps the others, 'c' among them, in order.
C9_RemovesTwelve ==
    Denoised =>
        denoised = SelectSeq(text, LAMBDA ch :
            ch \notin {">", "*", "|", "i", "m", "a", "g", "e", "d", "t", "p", "n"})

\* an input with 'c', 'i' and '>' whose output keeps the 'c'
C9_Witness ==
    /\ Denoised
    /\ {"c", "i", ">"} \subseteq Range(text)
    /\ "c" \in Range(denoised)

(***************************************************************************)
(* Properties of download_model (specification SpecDownload).              *)
(***************************************************************************)
\* C5: the request asks for the bytes from the size of the temp file on; a
\* file at the final name has exactly the remote size; when the stream ends
\* short or a step fails there is no file at the final name and the temp file
\* is kept.
C5_FinalFileIsComplete ==
    /\ dpc = "streaming" => requested <= temp_file /\ temp_file + pending = remote
    /\ Exists(model_file) => model_file = remote
    /\ dpc = "raised" => ~Exists(model_file)
    /\ dpc = "returned" /\ complained =>
           ~Exists(model_file) /\ Exists(temp_file)

====
